---- MODULE Spec2Model ----
(***************************************************************************)
(* Model of the drone kube plugin: Plugin.Exec (plugin.go) walks the       *)
(* `---`-separated parts of a rendered template, decodes each part,        *)
(* dispatches it by kind to a create-or-update reconciler (kube.go) and,   *)
(* for a Deployment, waits in waitUntilDeploymentSettled.                  *)
(*                                                                         *)
(* One run of Exec is modelled, one step per control-plane call, together  *)
(* with the control plane itself: its object store, another actor that     *)
(* creates or deletes the object under reconciliation, the deployment      *)
(* controller that refreshes the status, the watch channel and the timer.  *)
(***************************************************************************)
EXTENDS Integers, Sequences, FiniteSets, TLC

\* ------------------------------------------------------------------ bounds
MaxDocs == 2         \* parts of the rendered template
MaxEvents == 2       \* items the control plane puts on one watch channel
MaxOther == 1        \* writes by another actor during the run

\* ------------------------------------------------------------- vocabulary
\* Status.UnavailableReplicas: the code tells zero from nonzero only
Unavailable == {0, 1}
Kinds == {"Deployment", "ConfigMap", "Service", "Ingress", "CronJob"}
Namespaces == {"a", "b"}
Overrides == {"", "b"}

\* errors are sequences of strings; a wrapped error has its prefix first
Nil == <<>>
ErrNotFound == <<"NotFound">>
ErrAlreadyExists == <<"AlreadyExists">>
ErrNotAllowed == <<"MethodNotAllowed">>
ErrForbidden == <<"Forbidden">>
ErrConnRefused == <<"ConnRefused">>
OtherErrs == {ErrForbidden, ErrConnRefused}
ErrServer == <<"PLUGIN_SERVER is not defined">>
ErrToken == <<"PLUGIN_TOKEN is not defined">>
ErrCa == <<"PLUGIN_CA is not defined">>
ErrTemplate == <<"PLUGIN_TEMPLATE, or template must be defined">>
ErrReadFile == <<"ReadFile">>
ErrRender == <<"Render">>
ErrClient == <<"CreateKubeClient">>
ErrDecode == <<"Decode">>
ErrUnsupported == <<"This plugin doesn't support that resource type">>
ErrTimedOut == <<"deployment watcher timed out. Something is wrong">>
ConfigErrs == {ErrServer, ErrToken, ErrCa, ErrTemplate}

stateUpdated == "Updated"
stateFailed == "Failed"

\* an object as the control plane stores it, and as a document carries it:
\* spec is the payload, meta the server-assigned metadata, unavail the
\* Status.UnavailableReplicas, observed whether the controller has refreshed
\* the status since the spec was last written.
Absent == [spec |-> "none", meta |-> "none", unavail |-> 0, observed |-> FALSE]
Desired == [spec |-> "new", meta |-> "none", unavail |-> 0, observed |-> FALSE]

\* the parts strings.Split leaves: a document of a supported kind, of a kind
\* the scheme knows but the plugin does not dispatch ("Pod"), text that does
\* not decode ("Bad"), or whitespace only ("Empty")
Parts ==
    [kind : Kinds, ns : {""} \cup Namespaces, name : {"web"}]
        \cup [kind : {"Pod", "Bad", "Empty"}, ns : {""}, name : {""}]

Keys == Kinds \X Namespaces \X {"web"}

VARIABLES
    cfg,        \* the Plugin value Exec runs on (Template, KubeConfig)
    pc,         \* where Exec is
    doc,        \* templateYamlPart, the part the loop is at
    i,          \* its index among the parts of the template
    ns,         \* p.KubeConfig.Namespace of handleYamlConfig's copy of p
    probe,      \* what the existence check returned for the current part
    clientset,  \* TRUE once CreateKubeClient returned a client
    execErr,    \* what Exec returned (meaningful when pc = "done")
    cluster,    \* the control plane's store
    log,        \* the control-plane calls made for the current part, in order
    subs,       \* watch subscriptions opened and not stopped
    chan,       \* the current watcher's ResultChan
    closed,     \* the control plane closed that channel
    timer,      \* the watcher's timer: "unset", "running", "fired"
    consumed,   \* the events the current watcher received
    wread,      \* the watcher's point-read: liveDeployment, err
    wret,       \* what the watcher returned, NoRet while it runs
    others      \* writes made by another actor

vars == <<cfg, pc, doc, i, ns, probe, clientset, execErr, cluster, log,
          subs, chan, closed, timer, consumed, wread, wret, others>>

NoPart == [kind |-> "none", ns |-> "", name |-> ""]
NoProbe == [found |-> FALSE, live |-> Absent, err |-> Nil]
NoRet == [state |-> "none", err |-> Nil]
NoRead == [err |-> Nil, obj |-> Absent]

Init ==
    /\ cfg \in [Server : {"", "https://kube"}, Token : {"", "tok"},
                Ca : {"", "ca"}, Template : {"", "deploy.yaml"},
                Namespace : Overrides]
    /\ pc = "start"
    /\ doc = NoPart
    /\ i = 0
    /\ ns = ""
    /\ probe = NoProbe
    /\ clientset = FALSE
    /\ execErr = Nil
    /\ cluster = [k \in Keys |-> Absent]
    /\ log = <<>>
    /\ subs = 0
    /\ chan = <<>>
    /\ closed = FALSE
    /\ timer = "unset"
    /\ consumed = <<>>
    /\ wread = NoRead
    /\ wret = NoRet
    /\ others = 0


\* ------------------------------------------------------ the control plane
\* Get of <<kind, namespace, name>>: the stored object, a 404 status error
\* when there is none (an empty namespace names no object), or another error
ApiGet(k) ==
    {[err |-> e, obj |-> Absent] : e \in OtherErrs}
        \cup (IF k \in Keys /\ cluster[k] # Absent
              THEN {[err |-> Nil, obj |-> cluster[k]]}
              ELSE {[err |-> ErrNotFound, obj |-> Absent]})

\* Create: stores the document with server-assigned metadata and an empty
\* status, refuses an object that exists
ApiCreate(st, k, d) ==
    {[err |-> ErrForbidden, store |-> st]}
        \cup (IF k \notin Keys THEN {[err |-> ErrNotAllowed, store |-> st]}
              ELSE IF st[k] # Absent
              THEN {[err |-> ErrAlreadyExists, store |-> st]}
              ELSE {[err |-> Nil,
                     store |-> [st EXCEPT ![k] =
                        [spec |-> d.spec, meta |-> "srv", unavail |-> 0,
                         observed |-> FALSE]]]})

\* Update: replaces the spec of an object that exists and keeps its status
ApiUpdate(st, k, d) ==
    {[err |-> ErrForbidden, store |-> st]}
        \cup (IF k \notin Keys \/ st[k] = Absent
              THEN {[err |-> ErrNotFound, store |-> st]}
              ELSE {[err |-> Nil,
                     store |-> [st EXCEPT ![k] =
                        [spec |-> d.spec, meta |-> "srv",
                         unavail |-> st[k].unavail,
                         observed |-> st[k].observed /\ d.spec = st[k].spec]]]})

\* err.(*kubeErrors.StatusError) with Status().Code == http.StatusNotFound
IsStatusNotFound(e) == e = ErrNotFound

\* --------------------------------------------------- the existence probes
deploymentExists(resp) ==
    IF resp.err # Nil
    THEN IF IsStatusNotFound(resp.err)
         THEN [found |-> FALSE, live |-> Absent, err |-> Nil]
         ELSE [found |-> FALSE, live |-> Absent, err |-> resp.err]
    ELSE [found |-> TRUE, live |-> Absent, err |-> Nil]

\* getService without the status-code test: every error counts as absent
getService_AnyErrorAbsent(resp) ==
    IF resp.err # Nil
    THEN [found |-> FALSE, live |-> Absent, err |-> Nil]
    ELSE [found |-> TRUE, live |-> resp.obj, err |-> Nil]

getService(resp) ==
    IF resp.err # Nil
    THEN IF IsStatusNotFound(resp.err)
         THEN [found |-> FALSE, live |-> Absent, err |-> Nil]
         ELSE [found |-> FALSE, live |-> Absent, err |-> resp.err]
    ELSE [found |-> TRUE, live |-> resp.obj, err |-> Nil]

configMapExists(resp) ==
    IF resp.err # Nil
    THEN IF IsStatusNotFound(resp.err)
         THEN [found |-> FALSE, live |-> Absent, err |-> Nil]
         ELSE [found |-> FALSE, live |-> Absent, err |-> resp.err]
    ELSE [found |-> TRUE, live |-> Absent, err |-> Nil]

getIngress(resp) ==
    IF resp.err # Nil
    THEN IF IsStatusNotFound(resp.err)
         THEN [found |-> FALSE, live |-> Absent, err |-> Nil]
         ELSE [found |-> FALSE, live |-> Absent, err |-> resp.err]
    ELSE [found |-> TRUE, live |-> resp.obj, err |-> Nil]

getCronJob(resp) ==
    IF resp.err # Nil
    THEN IF IsStatusNotFound(resp.err)
         THEN [found |-> FALSE, live |-> Absent, err |-> Nil]
         ELSE [found |-> FALSE, live |-> Absent, err |-> resp.err]
    ELSE [found |-> TRUE, live |-> resp.obj, err |-> Nil]

\* the probe each reconciler calls first
Exists(kind, resp) ==
    CASE kind = "Deployment" -> deploymentExists(resp)
      [] kind = "ConfigMap" -> configMapExists(resp)
      [] kind = "Service" -> getService(resp)
      [] kind = "Ingress" -> getIngress(resp)
      [] kind = "CronJob" -> getCronJob(resp)

\* ------------------------------------------------------- the reconcilers
\* the writes each reconciler issues, in order, after a probe p that returned
\* no error, for the desired document d: each call and the document it sends
\* CreateOrUpdateDeployment without the return after Update: it falls
\* through to Create
CreateOrUpdateDeployment_FallsThrough(p, d) ==
    IF p.found THEN <<[op |-> "update", arg |-> d], [op |-> "create", arg |-> d]>>
    ELSE <<[op |-> "create", arg |-> d]>>

CreateOrUpdateDeployment(p, d) ==
    IF p.found THEN <<[op |-> "update", arg |-> d]>>
    ELSE <<[op |-> "create", arg |-> d]>>

\* ApplyService updating with the caller's document, as the other kinds do
ApplyService_SendsDesired(p, d) ==
    IF p.found THEN <<[op |-> "update", arg |-> d]>>
    ELSE <<[op |-> "create", arg |-> d]>>

ApplyService(p, d) ==
    IF p.found THEN <<[op |-> "update", arg |-> p.live]>>
    ELSE <<[op |-> "create", arg |-> d]>>

ApplyConfigMap(p, d) ==
    IF p.found THEN <<[op |-> "update", arg |-> d]>>
    ELSE <<[op |-> "create", arg |-> d]>>

\* ApplyIngress making sure: after a Create it also issues the Update
ApplyIngress_CreateThenUpdate(p, d) ==
    IF ~p.found THEN <<[op |-> "create", arg |-> d], [op |-> "update", arg |-> d]>>
    ELSE <<[op |-> "update", arg |-> d]>>

ApplyIngress(p, d) ==
    IF ~p.found THEN <<[op |-> "create", arg |-> d]>>
    ELSE <<[op |-> "update", arg |-> d]>>

\* ApplyCronJob with its test turned round: Create when the CronJob exists
ApplyCronJob_CreatesWhenFound(p, d) ==
    IF p.found THEN <<[op |-> "create", arg |-> d]>>
    ELSE <<[op |-> "update", arg |-> d]>>

ApplyCronJob(p, d) ==
    IF ~p.found THEN <<[op |-> "create", arg |-> d]>>
    ELSE <<[op |-> "update", arg |-> d]>>

WritesOf(kind, p, d) ==
    CASE kind = "Deployment" -> CreateOrUpdateDeployment(p, d)
      [] kind = "ConfigMap" -> ApplyConfigMap(p, d)
      [] kind = "Service" -> ApplyService(p, d)
      [] kind = "Ingress" -> ApplyIngress(p, d)
      [] kind = "CronJob" -> ApplyCronJob(p, d)


\* ------------------------------------------------------------ Plugin.Exec
\* the checks of Exec without the one on the CA certificate
ConfigError_NoCaCheck(c) ==
    IF c.Server = "" THEN ErrServer
    ELSE IF c.Token = "" THEN ErrToken
    ELSE IF c.Template = "" THEN ErrTemplate
    ELSE Nil

\* the four checks Exec starts with, in their order
ConfigError(c) ==
    IF c.Server = "" THEN ErrServer
    ELSE IF c.Token = "" THEN ErrToken
    ELSE IF c.Ca = "" THEN ErrCa
    ELSE IF c.Template = "" THEN ErrTemplate
    ELSE Nil

\* UniversalDeserializer().Decode of one part
Decode(part) == IF part.kind = "Bad" THEN ErrDecode ELSE Nil

\* a type switch whose default case applies the object as a ConfigMap
RouteOf_DefaultApplies(kind) == IF kind \in Kinds THEN kind ELSE "ConfigMap"

\* the type switch of handleYamlConfig: the case a decoded object takes
RouteOf(kind) == IF kind \in Kinds THEN kind ELSE "default"

\* if p.KubeConfig.Namespace == "" { p.KubeConfig.Namespace = o.Namespace }
\* handleYamlConfig on a pointer receiver: the namespace an earlier part
\* wrote into p.KubeConfig is still there for the later parts
ResolveNamespace_KeepsEarlier(override, declared) ==
    IF override # "" THEN override
    ELSE IF ns # "" THEN ns
    ELSE declared

\* handleYamlConfig has a value receiver: each call starts from Exec's copy
\* of p.KubeConfig and fills an empty Namespace from the document
ResolveNamespace(override, declared) ==
    IF override = "" THEN declared ELSE override


Kind == RouteOf(doc.kind)
Key == <<Kind, ns, doc.name>>

Entry(op, arg, err, obj) ==
    [doc |-> i, op |-> op, kind |-> Kind, ns |-> ns, name |-> doc.name,
     arg |-> arg, err |-> err, obj |-> obj]

\* a loop that drops the error of handleYamlConfig and goes on
ReturnToLoop_Continues(err) ==
    /\ pc' = "loop"
    /\ execErr' = execErr
    /\ i' = i + 1

\* err = p.handleYamlConfig(...); if err != nil { return err }; next part
ReturnToLoop(err) ==
    IF err # Nil
    THEN /\ pc' = "done"
         /\ execErr' = err
         /\ i' = i
    ELSE /\ pc' = "loop"
         /\ execErr' = execErr
         /\ i' = i + 1

ExecCheckConfig ==
    /\ pc = "start"
    /\ IF ConfigError(cfg) # Nil
       THEN pc' = "done" /\ execErr' = ConfigError(cfg)
       ELSE pc' = "read" /\ execErr' = execErr
    /\ UNCHANGED <<cfg, doc, i, ns, probe, clientset, cluster, log, subs,
                   chan, closed, timer, consumed, wread, wret, others>>

ReadTemplate ==
    /\ pc = "read"
    /\ \/ pc' = "done" /\ execErr' = ErrReadFile
       \/ pc' = "render" /\ execErr' = execErr
    /\ UNCHANGED <<cfg, doc, i, ns, probe, clientset, cluster, log, subs,
                   chan, closed, timer, consumed, wread, wret, others>>

RenderTemplate ==
    /\ pc = "render"
    /\ \/ pc' = "done" /\ execErr' = ErrRender
       \/ pc' = "connect" /\ execErr' = execErr
    /\ UNCHANGED <<cfg, doc, i, ns, probe, clientset, cluster, log, subs,
                   chan, closed, timer, consumed, wread, wret, others>>

Connect ==
    /\ pc = "connect"
    /\ \/ pc' = "done" /\ execErr' = ErrClient /\ clientset' = clientset
       \/ pc' = "split" /\ execErr' = execErr /\ clientset' = TRUE
    /\ UNCHANGED <<cfg, doc, i, ns, probe, cluster, log, subs,
                   chan, closed, timer, consumed, wread, wret, others>>

SplitTemplate ==
    /\ pc = "split"
    /\ doc' = NoPart
    /\ i' = 1
    /\ pc' = "loop"
    /\ UNCHANGED <<cfg, ns, probe, clientset, execErr, cluster, log, subs,
                   chan, closed, timer, consumed, wread, wret, others>>

\* the range ends after the last part: strings.Split returns at least one
LoopDone ==
    /\ pc = "loop"
    /\ i > 1
    /\ pc' = "done"
    /\ execErr' = Nil
    /\ UNCHANGED <<cfg, doc, i, ns, probe, clientset, cluster, log, subs,
                   chan, closed, timer, consumed, wread, wret, others>>

\* The loop never looks ahead, so each part of the template is drawn when
\* the range reaches it, and at most MaxDocs parts are drawn.
\* the range reaches a part that is empty once trimmed
SkipEmpty ==
    /\ pc = "loop"
    /\ i <= MaxDocs
    /\ \E part \in Parts :
         /\ part.kind = "Empty"
         /\ doc' = part
    /\ i' = i + 1
    /\ UNCHANGED <<cfg, pc, ns, probe, clientset, execErr, cluster, log,
                   subs, chan, closed, timer, consumed, wread, wret, others>>

\* the locals of the previous call of waitUntilDeploymentSettled are gone
\* when the next part is handled; its subscription stays counted in subs
ForgetWatcher ==
    /\ chan' = <<>>
    /\ closed' = FALSE
    /\ timer' = "unset"
    /\ consumed' = <<>>
    /\ wread' = NoRead
    /\ wret' = NoRet

\* the range reaches a part that is not empty: handleYamlConfig up to the
\* reconciler's first call
Dispatch ==
    /\ pc = "loop"
    /\ i <= MaxDocs
    /\ \E part \in Parts :
         /\ part.kind # "Empty"
         /\ doc' = part
         /\ IF Decode(part) # Nil
            THEN ReturnToLoop(Decode(part)) /\ ns' = cfg.Namespace
            ELSE IF RouteOf(part.kind) = "default"
            THEN ReturnToLoop(ErrUnsupported) /\ ns' = cfg.Namespace
            ELSE /\ ns' = ResolveNamespace(cfg.Namespace, part.ns)
                 /\ pc' = "probe"
                 /\ UNCHANGED <<i, execErr>>
    /\ probe' = NoProbe
    /\ ForgetWatcher
    /\ log' = <<>>
    /\ UNCHANGED <<cfg, clientset, cluster, subs, others>>

\* the reconciler's existence check
Probe ==
    /\ pc = "probe"
    /\ \E resp \in ApiGet(Key) :
         /\ log' = Append(log, Entry("get", Absent, resp.err, resp.obj))
         /\ probe' = Exists(Kind, resp)
         /\ IF probe'.err # Nil
            THEN ReturnToLoop(probe'.err)
            ELSE pc' = "write" /\ UNCHANGED <<i, execErr>>
    /\ UNCHANGED <<cfg, doc, ns, clientset, cluster, subs,
                   chan, closed, timer, consumed, wread, wret, others>>

ApiWrite(st, k, w) ==
    IF w.op = "create" THEN ApiCreate(st, k, w.arg) ELSE ApiUpdate(st, k, w.arg)

\* the outcomes of issuing the writes ws one after another on store st: the
\* store left, the log entries made, the last error
RECURSIVE Issue(_, _, _)
Issue(ws, k, st) ==
    IF ws = <<>> THEN {[store |-> st, entries |-> <<>>, err |-> Nil]}
    ELSE UNION {
        {[store |-> rest.store,
          entries |-> <<Entry(Head(ws).op, Head(ws).arg, r.err, Absent)>> \o rest.entries,
          err |-> IF Len(ws) = 1 THEN r.err ELSE rest.err]
            : rest \in Issue(Tail(ws), k, r.store)}
        : r \in ApiWrite(st, k, Head(ws))}

\* a Deployment case that calls the watcher whatever the reconciler returned
AfterReconcile_IgnoresError(kind, err) ==
    IF kind = "Deployment" THEN "settle" ELSE "return"

\* what handleYamlConfig does once the reconciler has returned err: only the
\* Deployment case goes on to waitUntilDeploymentSettled, and only on nil
AfterReconcile(kind, err) ==
    IF kind = "Deployment" /\ err = Nil THEN "settle" ELSE "return"

\* a watcher that reads the status first and opens its subscription after
WatcherOrder_ReadFirst(after) ==
    CASE after = "start" -> "pointread"
      [] after = "pointread" -> "watch"
      [] after = "watch" -> "observing"

\* the order of the watcher's steps: the Watch call, the point-read, the loop
WatcherOrder(after) ==
    CASE after = "start" -> "watch"
      [] after = "watch" -> "pointread"
      [] after = "pointread" -> "observing"

\* the reconciler's write, and for all kinds but Deployment the return of
\* handleYamlConfig
Write ==
    /\ pc = "write"
    /\ \E out \in Issue(WritesOf(Kind, probe, Desired), Key, cluster) :
         /\ cluster' = out.store
         /\ log' = log \o out.entries
         /\ IF AfterReconcile(Kind, out.err) = "settle"
            THEN pc' = WatcherOrder("start") /\ UNCHANGED <<i, execErr>>
            ELSE ReturnToLoop(out.err)
    /\ UNCHANGED <<cfg, doc, ns, probe, clientset, subs,
                   chan, closed, timer, consumed, wread, wret, others>>


\* --------------------------------------------- waitUntilDeploymentSettled
\* what the channel carries: a Deployment with its unavailable count, a
\* Status object (an error event), or the zero Event a closed channel yields
DeploymentEvent(u) == [obj |-> "Deployment", unavail |-> u]
StatusEvent == [obj |-> "Status", unavail |-> 0]
ZeroEvent == [obj |-> "nil", unavail |-> 0]

\* the watcher returns (state, err) and handleYamlConfig returns err
WatcherReturn(state, err) ==
    /\ wret' = [state |-> state, err |-> err]
    /\ ReturnToLoop(err)

\* the Watch call: a new subscription, on which the control plane may first
\* replay the object's current state
Watch ==
    /\ pc = "watch"
    /\ \/ /\ log' = Append(log, Entry("watch", Absent, ErrForbidden, Absent))
          /\ WatcherReturn(stateFailed, <<"watch deployment">> \o ErrForbidden)
          /\ UNCHANGED <<subs, chan>>
       \/ /\ log' = Append(log, Entry("watch", Absent, Nil, Absent))
          /\ subs' = subs + 1
          /\ chan' \in {<<>>} \cup
                (IF Key \in Keys /\ cluster[Key] # Absent
                 THEN {<<DeploymentEvent(cluster[Key].unavail)>>} ELSE {})
          /\ pc' = WatcherOrder("watch")
          /\ UNCHANGED <<i, execErr, wret>>
    /\ UNCHANGED <<cfg, doc, ns, probe, clientset, cluster, closed, timer,
                   consumed, wread, others>>

\* the point-read without the test on the unavailable count
ReadOutcome_AlwaysObserves(resp) ==
    IF resp.err # Nil THEN "failed" ELSE "observe"

\* a point-read that reports the rollout done whatever the count it read
ReadOutcome_SettlesOnAnyCount(resp) ==
    IF resp.err # Nil THEN "failed" ELSE "settled"

\* what the watcher does with the point-read's result
ReadOutcome(resp) ==
    IF resp.err # Nil THEN "failed"
    ELSE IF resp.obj.unavail = 0 THEN "settled"
    ELSE "observe"

\* the point-read and the test on its unavailable count
PointRead ==
    /\ pc = "pointread"
    /\ \E resp \in ApiGet(Key) :
         /\ log' = Append(log, Entry("get", Absent, resp.err, resp.obj))
         /\ wread' = resp
         /\ CASE ReadOutcome(resp) = "failed" ->
                   WatcherReturn(stateFailed, <<"get deployment">> \o resp.err)
                   /\ timer' = timer
              [] ReadOutcome(resp) = "settled" ->
                   WatcherReturn(stateUpdated, Nil) /\ timer' = timer
              [] ReadOutcome(resp) = "observe" ->
                   /\ timer' = "running"
                   /\ pc' = WatcherOrder("pointread")
                   /\ UNCHANGED <<i, execErr, wret>>
    /\ UNCHANGED <<cfg, doc, ns, probe, clientset, cluster, subs,
                   chan, closed, consumed, others>>

\* case <-timer.C
TimerCase ==
    /\ pc = "observing"
    /\ timer = "fired"
    /\ WatcherReturn(stateFailed, ErrTimedOut)
    /\ UNCHANGED <<cfg, doc, ns, probe, clientset, cluster, log, subs,
                   chan, closed, timer, consumed, wread, others>>

\* the event test inverted: settled on a nonzero count
EventOutcome_Inverted(ev) ==
    IF ev.obj # "Deployment" THEN "panic"
    ELSE IF ev.unavail # 0 THEN "settled"
    ELSE "continue"

\* what the loop does with a received event: the type assertion panics on
\* anything but a Deployment
EventOutcome(ev) ==
    IF ev.obj # "Deployment" THEN "panic"
    ELSE IF ev.unavail = 0 THEN "settled"
    ELSE "continue"

\* case event := <-watcher.ResultChan()
EventCase ==
    /\ pc = "observing"
    /\ chan # <<>> \/ closed
    /\ LET ev == IF chan # <<>> THEN Head(chan) ELSE ZeroEvent
       IN  /\ consumed' = Append(consumed, ev)
           /\ chan' = IF chan # <<>> THEN Tail(chan) ELSE chan
           /\ CASE EventOutcome(ev) = "panic" ->
                     pc' = "panic" /\ UNCHANGED <<i, execErr, wret>>
                [] EventOutcome(ev) = "settled" ->
                     WatcherReturn(stateUpdated, Nil)
                [] EventOutcome(ev) = "continue" ->
                     UNCHANGED <<pc, i, execErr, wret>>
    /\ UNCHANGED <<cfg, doc, ns, probe, clientset, cluster, log, subs,
                   closed, timer, wread, others>>

\* ---------------------------------------------------------- environment
\* the watcher runs and its Watch call has returned a subscription
Watching ==
    /\ pc \in {"watch", "pointread", "observing"}
    /\ \E n \in 1..Len(log) : log[n].op = "watch" /\ log[n].err = Nil
RoomOnChan == Len(chan) + Len(consumed) < MaxEvents

\* the timer's duration elapses
TimerFire ==
    /\ pc = "observing"
    /\ timer = "running"
    /\ timer' = "fired"
    /\ UNCHANGED <<cfg, pc, doc, i, ns, probe, clientset, execErr, cluster,
                   log, subs, chan, closed, consumed, wread, wret, others>>

\* the deployment controller refreshes the status of the written Deployment,
\* and an open subscription gets the change
Controller ==
    /\ pc \in {"watch", "pointread", "observing"}
    /\ Key \in Keys
    /\ cluster[Key] # Absent
    /\ Watching => ~closed /\ RoomOnChan
    /\ \E u \in Unavailable :
         /\ cluster' = [cluster EXCEPT ![Key].unavail = u, ![Key].observed = TRUE]
         /\ chan' = IF Watching THEN Append(chan, DeploymentEvent(u)) ELSE chan
    /\ UNCHANGED <<cfg, pc, doc, i, ns, probe, clientset, execErr, log, subs,
                   closed, timer, consumed, wread, wret, others>>

\* the control plane sends an error event on the subscription
ErrorEvent ==
    /\ Watching
    /\ ~closed
    /\ RoomOnChan
    /\ chan' = Append(chan, StatusEvent)
    /\ UNCHANGED <<cfg, pc, doc, i, ns, probe, clientset, execErr, cluster,
                   log, subs, closed, timer, consumed, wread, wret, others>>

\* the control plane ends the watch: the channel is closed
CloseChannel ==
    /\ Watching
    /\ ~closed
    /\ closed' = TRUE
    /\ UNCHANGED <<cfg, pc, doc, i, ns, probe, clientset, execErr, cluster,
                   log, subs, chan, timer, consumed, wread, wret, others>>

\* another actor creates or deletes the object under reconciliation
OtherActor ==
    /\ pc \in {"probe", "write"}
    /\ others < MaxOther
    /\ Key \in Keys
    /\ others' = others + 1
    /\ IF cluster[Key] = Absent
       THEN \E u \in (IF Kind = "Deployment" THEN Unavailable ELSE {0}) :
              cluster' = [cluster EXCEPT ![Key] =
                  [spec |-> "old", meta |-> "srv", unavail |-> u, observed |-> TRUE]]
       ELSE cluster' = [cluster EXCEPT ![Key] = Absent]
    /\ UNCHANGED <<cfg, pc, doc, i, ns, probe, clientset, execErr, log, subs,
                   chan, closed, timer, consumed, wread, wret>>

Next ==
    \/ ExecCheckConfig
    \/ ReadTemplate
    \/ RenderTemplate
    \/ Connect
    \/ SplitTemplate
    \/ LoopDone
    \/ SkipEmpty
    \/ Dispatch
    \/ Probe
    \/ Write
    \/ Watch
    \/ PointRead
    \/ TimerCase
    \/ EventCase
    \/ TimerFire
    \/ Controller
    \/ ErrorEvent
    \/ CloseChannel
    \/ OtherActor

Spec == Init /\ [][Next]_vars


\* the program's own steps go on as long as one is possible, the timer's
\* duration elapses, and a select with the timer ready takes its case in the
\* end; nothing is assumed of the control plane or of other actors
FairSpec ==
    /\ Spec
    /\ WF_vars(ExecCheckConfig \/ ReadTemplate \/ RenderTemplate \/ Connect
                \/ SplitTemplate \/ LoopDone \/ Probe \/ Write \/ Watch
                \/ PointRead)
    /\ WF_vars(TimerFire)
    /\ WF_vars(TimerCase)

\* ----------------------------------------------------------------- claims
Count(op) == Cardinality({n \in 1..Len(log) : log[n].op = op})
Writes == Count("create") + Count("update")
SawZero == \E n \in 1..Len(consumed) : consumed[n] = DeploymentEvent(0)
ReadDone == wread # NoRead
Settled == [state |-> stateUpdated, err |-> Nil]

\* C1: for every kind, a reconciler that found the resource absent has issued
\* one create and no update when it returns, one that found it present one
\* update and no create; it reads once before it writes and never issues
\* more than one write.
C1_OneWritePerReconcile ==
    /\ Writes <= 1
    /\ pc = "probe" => log = <<>>
    /\ pc = "write" => Count("get") = 1 /\ Writes = 0
    /\ (log # <<>> /\ pc \notin {"probe", "write"} /\ probe.err = Nil) =>
          IF probe.found
          THEN Count("update") = 1 /\ Count("create") = 0
          ELSE Count("create") = 1 /\ Count("update") = 0

W1_DeploymentUpdatedOnce ==
    /\ doc.kind = "Deployment"
    /\ pc = "watch"
    /\ probe.found
    /\ Count("update") = 1
    /\ Count("create") = 0

\* C2: for every kind, the probe answers a not-found response with (absent,
\* no error) and any other error with that error; a probe error is what the
\* run returns, with no create and no update issued.
C2_ProbeErrors ==
    log # <<>> =>
        /\ log[1].op = "get"
        /\ log[1].err = ErrNotFound => probe = [found |-> FALSE, live |-> Absent, err |-> Nil]
        /\ log[1].err \notin {Nil, ErrNotFound} =>
              /\ probe = [found |-> FALSE, live |-> Absent, err |-> log[1].err]
              /\ pc = "done"
              /\ execErr = log[1].err
              /\ Len(log) = 1
        /\ log[1].err = Nil => probe.found /\ probe.err = Nil

W2_ServiceProbeFails ==
    /\ doc.kind = "Service"
    /\ log = <<Entry("get", Absent, ErrConnRefused, Absent)>>
    /\ pc = "done"
    /\ execErr = ErrConnRefused

\* C3: the update a Service reconciler sends carries the live document its
\* existence check returned, with the server-assigned metadata, and not the
\* caller's document.
C3_ServiceUpdateSendsLive ==
    \A n \in 1..Len(log) :
        (log[n].kind = "Service" /\ log[n].op = "update") =>
            /\ log[n].arg = log[1].obj
            /\ log[n].arg.meta = "srv"
            /\ log[n].arg # Desired

W3_ServiceUpdated ==
    /\ doc.kind = "Service"
    /\ Len(log) = 2
    /\ log[2].op = "update"
    /\ log[2].err = Nil
    /\ log[2].arg.spec = "old"

\* C4 (as claimed): once the watcher has returned, no subscription is open.
C4_SubscriptionReleased ==
    pc \notin {"pointread", "observing", "panic"} => subs = 0

\* C5 (as claimed): a watcher in Observing that never sees a zero count
\* returns the timed-out error in the end.
C5_TimesOutUnlessZero ==
    (pc = "observing") ~> (wret.err = ErrTimedOut \/ SawZero)

\* C5 on a channel that is not closed and carries Deployment events only: a
\* lemma, the part of the claim the code keeps.
C5_Lemma_DeploymentEventsOnly ==
    (pc = "observing")
        ~> (\/ wret.err = ErrTimedOut
            \/ SawZero
            \/ closed
            \/ \E n \in 1..Len(chan) : chan[n].obj # "Deployment"
            \/ \E n \in 1..Len(consumed) : consumed[n].obj # "Deployment")

\* C6: a point-read that shows zero unavailable replicas makes the watcher
\* return Updated with no error, with no event received and the timer never
\* started.
C6_ZeroReadSettlesAtOnce ==
    (ReadDone /\ wread.err = Nil /\ wread.obj.unavail = 0) =>
        /\ wret = Settled
        /\ consumed = <<>>
        /\ timer = "unset"
        /\ pc \in {"loop", "done"}

W6_SettledWithEventWaiting ==
    /\ ReadDone
    /\ wread.err = Nil
    /\ wread.obj.unavail = 0
    /\ wret = Settled
    /\ chan # <<>>

\* C7: after a nonzero point-read the watcher that returns Updated has
\* received n events with a nonzero count and then one with count zero, n + 1
\* in all; it receives nothing after the first zero count, and it times out
\* only once the timer has fired.
C7_SettlesOnFirstZeroEvent ==
    /\ \A n \in 1..Len(consumed) :
          consumed[n] = DeploymentEvent(0) =>
              n = Len(consumed) /\ wret = Settled /\ pc \in {"loop", "done"}
    /\ (wret = Settled /\ ReadDone /\ wread.obj.unavail # 0) =>
          /\ consumed # <<>>
          /\ consumed[Len(consumed)] = DeploymentEvent(0)
          /\ \A n \in 1..(Len(consumed) - 1) :
                consumed[n].obj = "Deployment" /\ consumed[n].unavail # 0
    /\ wret.err = ErrTimedOut => timer = "fired"

W7_NonzeroThenZero ==
    /\ wret = Settled
    /\ wread.obj.unavail # 0
    /\ consumed = <<DeploymentEvent(1), DeploymentEvent(0)>>
    /\ timer = "running"

\* the error handleYamlConfig has met for the current part, Nil if none
HandleErr ==
    IF doc.kind \in {"none", "Empty"} THEN Nil
    ELSE IF Decode(doc) # Nil THEN Decode(doc)
    ELSE IF doc.kind \notin Kinds THEN ErrUnsupported
    ELSE IF probe.err # Nil THEN probe.err
    ELSE IF \E n \in 1..Len(log) : log[n].op \in {"create", "update"} /\ log[n].err # Nil
    THEN log[Len(log)].err
    ELSE wret.err

\* C8: the parts are handled one after another in their order, every call is
\* made for the part the loop is at, and the first error of a decode, a
\* reconcile or a settlement ends the run with that error: nothing happens
\* after it.
C8_FirstErrorEndsRun ==
    [][/\ pc # "done"
       /\ i' = i \/ i' = i + 1
       /\ (log' # log /\ log' # <<>>) => log'[Len(log')].doc = i /\ i' \in {i, i + 1}
       /\ i' = i + 1 => pc \in {"split", "loop"} \/ HandleErr' = Nil
       /\ HandleErr' # Nil => pc' = "done" /\ execErr' = HandleErr']_vars

W8_SecondPartFails ==
    /\ i = 2
    /\ pc = "done"
    /\ doc.kind = "ConfigMap"
    /\ Len(log) = 2
    /\ log[2].err = ErrForbidden
    /\ execErr = ErrForbidden

\* C9: a part that decodes to a kind outside the five makes the run end with
\* the unsupported-kind error, and no control-plane call is made for it.
C9_UnsupportedKind ==
    (doc.kind \notin Kinds \cup {"none", "Empty"} /\ Decode(doc) = Nil) =>
        /\ pc = "done"
        /\ execErr = ErrUnsupported
        /\ log = <<>>
        /\ probe = NoProbe

W9_PodAfterAppliedPart ==
    /\ doc.kind = "Pod"
    /\ i = 2
    /\ pc = "done"
    /\ \E k \in Keys : cluster[k].spec = "new"

\* C10: with the server address, the token, the CA certificate or the
\* template path missing, Exec returns the error of the first one missing;
\* no client is created and no control-plane call is made.
C10_ConfigErrorFirst ==
    ("" \in {cfg.Server, cfg.Token, cfg.Ca, cfg.Template}) =>
        /\ ~clientset
        /\ log = <<>>
        /\ subs = 0
        /\ cluster = [k \in Keys |-> Absent]
        /\ pc \in {"start", "done"}
        /\ pc = "done" =>
              execErr = (IF cfg.Server = "" THEN ErrServer
                         ELSE IF cfg.Token = "" THEN ErrToken
                         ELSE IF cfg.Ca = "" THEN ErrCa
                         ELSE ErrTemplate)

W10_MissingCa ==
    /\ cfg.Server # ""
    /\ cfg.Token # ""
    /\ cfg.Ca = ""
    /\ pc = "done"
    /\ execErr = ErrCa

\* the part's write: the entry after the existence check, when there is one
WriteDone ==
    /\ Len(log) >= 2
    /\ log[1].op = "get"
    /\ log[2].op \in {"create", "update"}
WatcherStarted ==
    \/ Count("watch") > 0
    \/ pc \in {"watch", "pointread", "observing", "panic"}
    \/ wret # NoRet
    \/ ReadDone

\* C11: the watcher runs only for a Deployment part and only after that
\* part's create or update returned no error: its Watch call is the first
\* call after the write, no other kind and no failed reconcile is ever
\* watched; and the loop goes past a Deployment part only when the watcher
\* of that part has returned Settled.
C11_WatchOnlyAppliedDeployment ==
    /\ WatcherStarted =>
          /\ probe.err = Nil
          /\ WriteDone
          /\ Writes = 1
          /\ log[1].kind = "Deployment"
          /\ log[2].err = Nil
    /\ \A n \in 1..Len(log) : log[n].op = "watch" => n = 3
    /\ (/\ log # <<>>
        /\ log[1].kind = "Deployment"
        /\ pc = "loop" \/ (pc = "done" /\ execErr = Nil))
          => wret = Settled

W11_NextPartAfterSettled ==
    /\ doc.kind = "Deployment"
    /\ pc = "loop"
    /\ i = 2
    /\ Count("watch") = 1
    /\ wret = Settled

\* C12: every control-plane call made for a part, the existence check and
\* the create, update, watch and point-read after it, names a namespace that
\* is not empty, and all calls of one part name the same namespace.
C12_NamespaceNeverEmpty ==
    \A n \in 1..Len(log) :
        /\ log[n].ns # ""
        /\ log[n].ns = log[1].ns

\* the half of C12 the code keeps: one namespace for all calls of a part
C12_Lemma_OneNamespacePerPart ==
    \A n \in 1..Len(log) : log[n].ns = ns /\ log[n].ns = log[1].ns

\* C13: reconciling again a document the store already holds as desired,
\* with nobody else having touched it since the existence check, takes the
\* update branch, and an update that succeeds leaves the store exactly as it
\* was after the first reconcile.
C13_SecondReconcileChangesNothing ==
    [][(/\ pc = "write"
        /\ log' # log
        /\ Key \in Keys
        /\ cluster[Key] # Absent
        /\ cluster[Key] = log[1].obj
        /\ cluster[Key].spec = Desired.spec)
       => /\ Len(log') = 2
          /\ log'[2].op = "update"
          /\ log'[2].err = Nil => cluster' = cluster]_vars

W13_ServiceReconciledTwice ==
    /\ doc.kind = "Service"
    /\ i = 3
    /\ pc = "loop"
    /\ others = 0
    /\ Len(log) = 2
    /\ log[1].obj.spec = Desired.spec
    /\ log[2].op = "update"
    /\ log[2].err = Nil
    /\ cluster[Key] = log[1].obj

\* C14: once a part's reconciler has returned no error, on the create branch
\* and on the update branch alike and for every kind, the stored document
\* carries the spec of the document the template asked for.
C14_StoredSpecIsDesired ==
    (/\ WriteDone
     /\ Writes = 1
     /\ log[2].err = Nil
     /\ <<log[2].kind, log[2].ns, log[2].name>> \in Keys)
        => cluster[<<log[2].kind, log[2].ns, log[2].name>>].spec = Desired.spec

\* the part of C14 the code keeps: every kind on the create branch, every
\* kind but Service on the update branch
C14_Lemma_AllButServiceUpdate ==
    (/\ WriteDone
     /\ Writes = 1
     /\ log[2].err = Nil
     /\ ~(log[2].kind = "Service" /\ log[2].op = "update"))
        => cluster[<<log[2].kind, log[2].ns, log[2].name>>].spec = Desired.spec

ZeroObserved ==
    \/ ReadDone /\ wread.err = Nil /\ wread.obj.unavail = 0
    \/ SawZero

\* C15: the watcher returns Settled exactly when it returns no error, and
\* only after a zero count in its point-read or in an event it consumed; a
\* time-out comes only with the timer fired and no zero count observed, a
\* failure only from the Watch call or the point-read, so the three outcomes
\* exclude each other; and once it has returned it takes no further event
\* off the channel and makes no further control-plane call.
C15_WatcherOutcomes ==
    /\ [](wret # NoRet =>
            /\ pc \in {"loop", "done"}
            /\ wret.state \in {stateUpdated, stateFailed}
            /\ wret.state = stateUpdated <=> wret.err = Nil
            /\ wret.err = Nil => ZeroObserved
            /\ wret.err = ErrTimedOut => timer = "fired" /\ ~ZeroObserved
            /\ wret.err \notin {Nil, ErrTimedOut} =>
                  /\ consumed = <<>>
                  /\ timer = "unset"
                  /\ log[Len(log)].err # Nil
                  /\ wret.err \in {<<"watch deployment">> \o log[Len(log)].err,
                                   <<"get deployment">> \o log[Len(log)].err})
    /\ [][(wret # NoRet /\ wret' # NoRet) =>
            /\ wret' = wret
            /\ consumed' = consumed
            /\ chan' = chan
            /\ log' = log
            /\ subs' = subs]_vars

W15_TimedOutAfterNonzeroEvent ==
    /\ wret = [state |-> stateFailed, err |-> ErrTimedOut]
    /\ pc = "done"
    /\ consumed = <<DeploymentEvent(1)>>
    /\ wread.obj.unavail = 1

\* C16: when somebody else creates the object after the existence check
\* found none, or deletes it after the check found it, the reconciler still
\* issues the one write its check chose, that write fails (already-exists on
\* the create, not-found on the update, unless the call fails before that),
\* and the reconciler returns that error: no second check, no retry, no
\* write of the other kind, the store untouched and the run ended.
C16_RaceFailsTheWrite ==
    [][(/\ pc = "write"
        /\ log' # log
        /\ Key \in Keys
        /\ probe.found # (cluster[Key] # Absent))
       => /\ Len(log') = 2
          /\ log'[1] = log[1]
          /\ log'[2].op = (IF probe.found THEN "update" ELSE "create")
          /\ log'[2].err \in {IF probe.found THEN ErrNotFound ELSE ErrAlreadyExists,
                              ErrForbidden}
          /\ cluster' = cluster
          /\ pc' = "done"
          /\ execErr' = log'[2].err]_vars

W16_IngressCreatedMeanwhile ==
    /\ doc.kind = "Ingress"
    /\ pc = "done"
    /\ ~probe.found
    /\ others = 1
    /\ Len(log) = 2
    /\ log[2].op = "create"
    /\ execErr = ErrAlreadyExists
    /\ cluster[Key].spec = "old"

\* C17: the namespace is resolved part by part: with no override every call
\* of a part names the namespace that part declares, whatever namespace an
\* earlier part was reconciled in; with an override every call names the
\* override; and handling a part leaves the run's configuration as it was.
C17_NamespacePerPart ==
    /\ []((doc.kind \in Kinds /\ Decode(doc) = Nil) =>
            LET expected == IF cfg.Namespace = "" THEN doc.ns ELSE cfg.Namespace
            IN  /\ ns = expected
                /\ \A n \in 1..Len(log) : log[n].ns = expected)
    /\ [][cfg' = cfg]_vars

W17_SecondPartInItsOwnNamespace ==
    /\ cfg.Namespace = ""
    /\ i = 3
    /\ pc = "loop"
    /\ doc.kind = "ConfigMap"
    /\ doc.ns = "a"
    /\ others = 0
    /\ Len(log) = 2
    /\ log[2].ns = "a"
    /\ log[2].err = Nil
    /\ \E k \in Kinds : cluster[<<k, "b", "web">>].spec = Desired.spec

C19_SettledStatusIsFresh ==
    (/\ wret = Settled
     /\ WriteDone
     /\ log[2].op = "update"
     /\ ReadDone
     /\ wread.err = Nil
     /\ wread.obj.unavail = 0)
        => wread.obj.observed

\* C20: while the watcher loops, whatever arrives on the channel, the zero
\* Event of a closed channel and an error event with a Status object
\* included, is handled without abnormal termination: the watcher leaves
\* only by returning one of its outcomes.
C20_NoAbnormalTermination == pc # "panic"

\* what abnormal termination takes: an event that carries no Deployment
C20_Lemma_PanicOnlyOnNonDeployment ==
    pc = "panic" =>
        /\ consumed # <<>>
        /\ consumed[Len(consumed)] \in {StatusEvent, ZeroEvent}
        /\ wret = NoRet

====
